---- MODULE Spec2Model ----
(***************************************************************************)
(* Model of the 25-series SPI flash driver of src/src/series25.rs:         *)
(* the Identification decoder, the Status flags, the command encoding and  *)
(* the Flash driver's operations, each transport operation being one step. *)
(* The SPI transport and the flash chip behind it are the environment.     *)
(***************************************************************************)
EXTENDS Integers, Sequences, FiniteSets, TLC

VARIABLES
    dev,      \* the chip: [busy, wel, hi] (hi: the status bits above WEL)
    driver,   \* where the Flash value is: "none", "held", "borrowed", "moved"
    pc,       \* position of the running call: "idle", "write_enable", "command", "wait_done"
    call,     \* the running (or last) call: [op, addr, data, len]
    log,      \* the transport operations the running (or last) call has issued
    result,   \* what the last call returned: [val, num, id]
    buf,      \* input of from_jedec_id (decoder specification)
    ident,    \* its Identification
    bits,     \* input of Status::from_bits_truncate (status specification)
    status,   \* its Status
    params    \* the FlashParameters of the driver: [page, sector, block, chip]

vars == <<dev, driver, pc, call, log, result, buf, ident, bits, status, params>>

(***************************************************************************)
(* Bounds of the model.                                                    *)
(***************************************************************************)
\* status reads one wait_done may issue while the chip stays busy
MaxPolls == 3
\* bytes a write_bytes payload may exceed the 256-byte window by (256 + 44 = 300)
ExtraLen == 44
\* longest buffer of the exhaustively enumerated from_jedec_id inputs
MaxIdLen == 4
\* longest run of continuation bytes of the structured from_jedec_id inputs
MaxCont == 10
\* most continuation bytes a chip sends before its identity on read_jedec_id
MaxStreamCont == 9

(***************************************************************************)
(* Opcode (lines 74-94).                                                   *)
(***************************************************************************)
ReadJedecId == 159   \* 0x9F
WriteEnable == 6     \* 0x06
ReadStatus == 5      \* 0x05
Read == 3            \* 0x03
PageProg == 2        \* 0x02
SectorErase == 32    \* 0x20
BlockErase == 216    \* 0xD8
ChipErase == 199     \* 0xC7

\* the continuation code of from_jedec_id, 0x7F
Continuation == 127
\* the payload limit of write_bytes
PageLimit == 256

(***************************************************************************)
(* Integer helpers: u8 casts, u32 addresses as two 16-bit halves (TLC's    *)
(* integers are 32-bit signed), bitwise and.                               *)
(***************************************************************************)
AsU8(x) == x % 256

Min(a, b) == IF a < b THEN a ELSE b

\* mutant: the first address byte taken from bits 24-31
Shr24(addr) == addr.hi \div 256

\* addr >> 16 and addr >> 8 of a u32 held as [hi, lo], addr = hi * 2^16 + lo
Shr16(addr) == addr.hi

Shr8(addr) == addr.hi * 256 + (addr.lo \div 256)
Shr0(addr) == addr.lo

RECURSIVE BitAnd(_, _)
BitAnd(a, b) ==
    IF a = 0 \/ b = 0 THEN 0
    ELSE (a % 2) * (b % 2) + 2 * BitAnd(a \div 2, b \div 2)

RECURSIVE BitOr(_, _)
BitOr(a, b) ==
    IF a = 0 THEN b
    ELSE IF b = 0 THEN a
    ELSE (IF a % 2 = 1 \/ b % 2 = 1 THEN 1 ELSE 0) + 2 * BitOr(a \div 2, b \div 2)

(***************************************************************************)
(* Status (lines 96-108).                                                  *)
(***************************************************************************)
BUSY == 1
WEL == 2
PROT == 28
SRWD == 128

\* mutant: from_bits_retain, which keeps the unknown bits
from_bits_retain(b) == b

\* mutant: SRWD left out of the flags
StatusAll_no_SRWD == BitOr(BitOr(BUSY, WEL), PROT)

StatusAll == BitOr(BitOr(BUSY, WEL), BitOr(PROT, SRWD))

from_bits_truncate(b) == BitAnd(b, StatusAll)

contains(s, flag) == BitAnd(s, flag) = flag

(***************************************************************************)
(* Identification::from_jedec_id (lines 25-44).                            *)
(***************************************************************************)
\* mutant: the loop without its break, which ends on the last such index
ScanStart_no_break(b, bound) ==
    LET hits == {i \in 0..(bound - 1) : b[i + 1] # Continuation}
    IN  IF hits = {} THEN 0
        ELSE CHOOSE i \in hits : \A j \in hits : i >= j

\* mutant: start_idx left on the last scanned index when the loop runs out
ScanStart_fallback_last(b, bound) ==
    LET hits == {i \in 0..(bound - 1) : b[i + 1] # Continuation}
    IN  IF hits = {} THEN bound - 1
        ELSE CHOOSE i \in hits : \A j \in hits : i <= j

\* the for loop of lines 33-38: start_idx is the first index below bound (the
\* take) whose byte is not 0x7F, where the loop breaks, and stays 0 when the
\* loop runs out
ScanStart(b, bound) ==
    LET hits == {i \in 0..(bound - 1) : b[i + 1] # Continuation}
    IN  IF hits = {} THEN 0
        ELSE CHOOSE i \in hits : \A j \in hits : i <= j

\* buf.len() - 2 underflows below 2 bytes and the indexing of line 41 is out of
\* bounds below 3 bytes: either way the call panics
from_jedec_id(b) ==
    IF Len(b) < 3 THEN [panic |-> TRUE, bytes |-> <<>>, continuations |-> 0]
    ELSE LET start_idx == ScanStart(b, Len(b) - 2)
         IN  [panic |-> FALSE,
              bytes |-> <<b[start_idx + 1], b[start_idx + 2], b[start_idx + 3]>>,
              continuations |-> AsU8(start_idx)]

mfr_code(id) == id.bytes[1]

device_id(id) == SubSeq(id.bytes, 2, 3)

continuation_count(id) == id.continuations

(***************************************************************************)
(* The command headers (lines 242-247, 262-267, 280-285, 300-305, 323).    *)
(***************************************************************************)
cmd_buf_read(addr) ==
    <<Read, AsU8(Shr16(addr)), AsU8(Shr8(addr)), AsU8(Shr0(addr))>>

cmd_buf_erase_sector(addr) ==
    <<SectorErase, AsU8(Shr16(addr)), AsU8(Shr8(addr)), AsU8(Shr0(addr))>>

cmd_buf_erase_block(addr) ==
    <<BlockErase, AsU8(Shr16(addr)), AsU8(Shr8(addr)), AsU8(Shr0(addr))>>

cmd_buf_write_bytes(addr) ==
    <<PageProg, AsU8(Shr16(addr)), AsU8(Shr8(addr)), AsU8(Shr0(addr))>>

cmd_buf_erase_all == <<ChipErase>>

\* mutant: the payload cut to the configured page size
payload_page(data) == SubSeq(data, 1, Min(params.page, Len(data)))

\* mutant: the payload not cut to the page
payload_whole(data) == data

\* &data[..256.min(data.len())] of line 310
payload(data) == SubSeq(data, 1, Min(PageLimit, Len(data)))

(***************************************************************************)
(* The environment: the SpiDevice transport and the chip behind it.        *)
(* One transport operation is one chip-select frame; it may fail.          *)
(***************************************************************************)
\* spi.write(bytes)
SpiWrite(bytes, ok) ==
    [kind |-> "write", out |-> <<bytes>>, rdlen |-> 0, rx |-> <<>>, ok |-> ok]

\* spi.transfer_in_place(bytes): rx is what the chip clocks out meanwhile
SpiTransfer(bytes, rx, ok) ==
    [kind |-> "transfer", out |-> <<bytes>>, rdlen |-> 0,
     rx |-> IF ok THEN rx ELSE <<>>, ok |-> ok]

\* spi.transaction([Write(cmd), Read(buf)]) with rdlen = buf.len()
SpiWriteRead(cmd, rdlen, ok) ==
    [kind |-> "transaction", out |-> <<cmd>>, rdlen |-> rdlen, rx |-> <<>>, ok |-> ok]

\* spi.transaction([Write(cmd), Write(data)])
SpiWriteWrite(cmd, data, ok) ==
    [kind |-> "transaction", out |-> <<cmd, data>>, rdlen |-> 0, rx |-> <<>>, ok |-> ok]

\* the status register the chip reports
StatusByte(d) == d.hi + (IF d.wel THEN WEL ELSE 0) + (IF d.busy THEN BUSY ELSE 0)

\* the chip after a frame that starts with opcode: write-enable sets the latch,
\* an erase or program starts only with the latch set; a busy chip ignores both
DevAfter(d, opcode) ==
    IF d.busy THEN d
    ELSE IF opcode = WriteEnable THEN [d EXCEPT !.wel = TRUE]
    ELSE IF opcode \in {SectorErase, BlockErase, ChipErase, PageProg} /\ d.wel
         THEN [d EXCEPT !.busy = TRUE]
    ELSE d

\* a failed transport operation may or may not have reached the chip
DevNext(d, opcode, ok) ==
    IF ok THEN {DevAfter(d, opcode)} ELSE {d, DevAfter(d, opcode)}

(***************************************************************************)
(* Inputs.                                                                 *)
(***************************************************************************)
U32(hi, lo) == [hi |-> hi, lo |-> lo]

\* 0, 0x00234567, 0x01234567, 0x81234567, 0x01000000, 0x00FFFFFF, 0xFFFFFFFF
Addrs ==
    {U32(0, 0), U32(35, 17767), U32(291, 17767), U32(33059, 17767),
     U32(256, 0), U32(255, 65535), U32(65535, 65535)}

\* the bytes of a payload of n bytes: all different within a page
Data(n) == [i \in 1..n |-> (i * 7 + 3) % 256]

DataLens == {0, 1, PageLimit - 1, PageLimit, PageLimit + 1, PageLimit + ExtraLen}

ReadLens == {0, 1, PageLimit + ExtraLen}

DevHi == {0, PROT + 96, SRWD}

Cont(k) == [i \in 1..k |-> Continuation]

\* the length of the read_jedec_id transfer (line 190)
JedecLen == 12

\* what a chip clocks out after the read-JEDEC-id opcode: k continuation
\* codes, its identity id, then zero padding; the transfer takes the first 11
JedecStream(k, id) ==
    SubSeq(Cont(k) \o id \o [i \in 1..JedecLen |-> 0], 1, JedecLen - 1)

JedecIds == {<<194, 34, 8>>, <<1, 127, 127>>}

JedecStreams == {JedecStream(k, id) : k \in 0..MaxStreamCont, id \in JedecIds}

\* FlashParameters (lines 111-120): PAGE_SIZE, SECTOR_SIZE, BLOCK_SIZE, CHIP_SIZE
Geometry(page, sector, block, chip) ==
    [page |-> page, sector |-> sector, block |-> block, chip |-> chip]

Geometries ==
    {Geometry(256, 4096, 65536, 16777216), Geometry(64, 512, 4096, 65536),
     Geometry(512, 4096, 32768, 1048576)}

NoCall == [op |-> "none", addr |-> U32(0, 0), data |-> <<>>, len |-> 0]

NoIdent == [panic |-> FALSE, bytes |-> <<>>, continuations |-> 0]

\* no value returned yet; num is a returned Status or size, id a returned Identification
NoResult == [val |-> "none", num |-> 0, id |-> NoIdent]

Consuming == {"erase_sector", "erase_block", "erase_all", "write_bytes"}

(***************************************************************************)
(* The Flash driver (lines 136-327).                                       *)
(***************************************************************************)
\* mutant: the erase and write methods borrow the driver (&mut self)
DriverAfter_borrowing(op, ok) ==
    IF op = "init" THEN (IF ok THEN "held" ELSE "none") ELSE "held"

\* mutant: init hands the driver over whatever wait_done returned
DriverAfter_init_kept(op, ok) ==
    IF op = "init" THEN "held"
    ELSE IF op \in {"erase_sector", "erase_block", "erase_all", "write_bytes"} THEN "none"
    ELSE "held"

\* where the Flash value is once op has returned: init yields it on success,
\* a &mut self method gives the borrow back, and a method taking self by value
\* returns Result<(), _>, so its Flash is dropped whatever the outcome
DriverAfter(op, ok) ==
    IF op = "init" THEN (IF ok THEN "held" ELSE "none")
    ELSE IF op \in Consuming THEN "none"
    ELSE "held"

Return(val) ==
    /\ pc' = "idle"
    /\ result' = [val |-> val, num |-> 0, id |-> NoIdent]
    /\ driver' = DriverAfter(call.op, val # "Err")

Enter(op, addr, data, len, at) ==
    /\ pc = "idle"
    /\ call' = [op |-> op, addr |-> addr, data |-> data, len |-> len]
    /\ log' = <<>>
    /\ result' = NoResult
    /\ pc' = at

\* read_status (lines 199-204) on transport operation t
read_status(t) ==
    IF t.ok THEN [ok |-> TRUE, status |-> from_bits_truncate(t.rx[2])]
    ELSE [ok |-> FALSE, status |-> 0]

StatusReads(l) == Cardinality({i \in 1..Len(l) : l[i].out[1][1] = ReadStatus})

\* init (lines 147-157) up to its wait_done
init ==
    /\ driver = "none"
    /\ Enter("init", U32(0, 0), <<>>, 0, "wait_done")
    /\ driver' = "moved"
    /\ UNCHANGED <<dev, buf, ident, bits, status, params>>

\* the public wait_done (line 211) up to its loop
wait_done ==
    /\ driver = "held"
    /\ Enter("wait_done", U32(0, 0), <<>>, 0, "wait_done")
    /\ driver' = "borrowed"
    /\ UNCHANGED <<dev, buf, ident, bits, status, params>>

\* mutant: a failed status read is taken for a busy chip and read again
wait_done_retry ==
    /\ pc = "wait_done"
    /\ StatusReads(log) < MaxPolls \/ ~dev.busy
    /\ \E ok \in BOOLEAN :
         LET t == SpiTransfer(<<ReadStatus, 0>>, <<0, StatusByte(dev)>>, ok)
             r == read_status(t)
         IN  /\ log' = Append(log, t)
             /\ IF ~r.ok \/ contains(r.status, BUSY)
                THEN UNCHANGED <<pc, result, driver>>
                ELSE Return("Ok")
    /\ UNCHANGED <<dev, call, buf, ident, bits, status, params>>

\* mutant: a retry limit, wait_done gives up after its second status read
wait_done_limit ==
    /\ pc = "wait_done"
    /\ StatusReads(log) < MaxPolls \/ ~dev.busy
    /\ \E ok \in BOOLEAN :
         LET t == SpiTransfer(<<ReadStatus, 0>>, <<0, StatusByte(dev)>>, ok)
             r == read_status(t)
         IN  /\ log' = Append(log, t)
             /\ IF ~r.ok THEN Return("Err")
                ELSE IF contains(r.status, BUSY) /\ StatusReads(log) < 1
                     THEN UNCHANGED <<pc, result, driver>>
                ELSE Return("Ok")
    /\ UNCHANGED <<dev, call, buf, ident, bits, status, params>>

\* mutant: no loop, wait_done returns on its first successful status read
wait_done_once ==
    /\ pc = "wait_done"
    /\ StatusReads(log) < MaxPolls \/ ~dev.busy
    /\ \E ok \in BOOLEAN :
         LET t == SpiTransfer(<<ReadStatus, 0>>, <<0, StatusByte(dev)>>, ok)
             r == read_status(t)
         IN  /\ log' = Append(log, t)
             /\ IF ~r.ok THEN Return("Err") ELSE Return("Ok")
    /\ UNCHANGED <<dev, call, buf, ident, bits, status, params>>

\* one iteration of while self.read_status()?.contains(Status::BUSY) {} (line 212)
wait_done_step ==
    /\ pc = "wait_done"
    /\ StatusReads(log) < MaxPolls \/ ~dev.busy
    /\ \E ok \in BOOLEAN :
         LET t == SpiTransfer(<<ReadStatus, 0>>, <<0, StatusByte(dev)>>, ok)
             r == read_status(t)
         IN  /\ log' = Append(log, t)
             /\ IF ~r.ok THEN Return("Err")
                ELSE IF contains(r.status, BUSY)
                     THEN UNCHANGED <<pc, result, driver>>
                ELSE Return("Ok")
    /\ UNCHANGED <<dev, call, buf, ident, bits, status, params>>

\* erase_sector, erase_block (lines 259, 277) up to write_enable
erase_addressed ==
    /\ driver = "held"
    /\ \E op \in {"erase_sector", "erase_block"}, addr \in Addrs :
         Enter(op, addr, <<>>, 0, "write_enable")
    /\ driver' = "moved"
    /\ UNCHANGED <<dev, buf, ident, bits, status, params>>

\* erase_all (line 321) up to write_enable
erase_all ==
    /\ driver = "held"
    /\ Enter("erase_all", U32(0, 0), <<>>, 0, "write_enable")
    /\ driver' = "moved"
    /\ UNCHANGED <<dev, buf, ident, bits, status, params>>

\* write_bytes (line 297) up to write_enable
write_bytes ==
    /\ driver = "held"
    /\ \E addr \in Addrs, n \in DataLens :
         Enter("write_bytes", addr, Data(n), 0, "write_enable")
    /\ driver' = "moved"
    /\ UNCHANGED <<dev, buf, ident, bits, status, params>>

\* mutant: the result of write_enable is ignored
write_enable_unchecked ==
    /\ pc = "write_enable"
    /\ \E ok \in BOOLEAN :
         /\ log' = Append(log, SpiWrite(<<WriteEnable>>, ok))
         /\ dev' \in DevNext(dev, WriteEnable, ok)
         /\ pc' = "command"
    /\ UNCHANGED <<result, driver, call, buf, ident, bits, status, params>>

\* self.write_enable()? (lines 206-209, 260, 278, 298, 322)
write_enable ==
    /\ pc = "write_enable"
    /\ \E ok \in BOOLEAN :
         /\ log' = Append(log, SpiWrite(<<WriteEnable>>, ok))
         /\ dev' \in DevNext(dev, WriteEnable, ok)
         /\ IF ok THEN pc' = "command" /\ UNCHANGED <<result, driver>>
            ELSE Return("Err")
    /\ UNCHANGED <<call, buf, ident, bits, status, params>>

\* mutant: write_bytes sends its header in a frame of its own
command_op_header_alone(c, ok) ==
    CASE c.op = "erase_sector" -> SpiWrite(cmd_buf_erase_sector(c.addr), ok)
      [] c.op = "erase_block" -> SpiWrite(cmd_buf_erase_block(c.addr), ok)
      [] c.op = "erase_all" -> SpiWrite(cmd_buf_erase_all, ok)
      [] c.op = "write_bytes" -> SpiWrite(cmd_buf_write_bytes(c.addr), ok)

\* the erase or program command of the running call (lines 268, 286, 307-312, 324)
command_op(c, ok) ==
    CASE c.op = "erase_sector" -> SpiWrite(cmd_buf_erase_sector(c.addr), ok)
      [] c.op = "erase_block" -> SpiWrite(cmd_buf_erase_block(c.addr), ok)
      [] c.op = "erase_all" -> SpiWrite(cmd_buf_erase_all, ok)
      [] c.op = "write_bytes" ->
            SpiWriteWrite(cmd_buf_write_bytes(c.addr), payload(c.data), ok)

command ==
    /\ pc = "command"
    /\ \E ok \in BOOLEAN :
         LET t == command_op(call, ok)
         IN  /\ log' = Append(log, t)
             /\ dev' \in DevNext(dev, t.out[1][1], ok)
             /\ IF ok THEN pc' = "wait_done" /\ UNCHANGED <<result, driver>>
                ELSE Return("Err")
    /\ UNCHANGED <<call, buf, ident, bits, status, params>>

\* a &mut self method that issues one transport operation t and returns res
Single(op, addr, len, t, res) ==
    /\ pc = "idle"
    /\ call' = [op |-> op, addr |-> addr, data |-> <<>>, len |-> len]
    /\ log' = <<t>>
    /\ result' = res
    /\ dev' \in DevNext(dev, t.out[1][1], t.ok)
    /\ UNCHANGED <<pc, driver, buf, ident, bits, status, params>>

\* the public read_status (lines 199-204)
read_status_call ==
    /\ driver = "held"
    /\ \E ok \in BOOLEAN :
         LET t == SpiTransfer(<<ReadStatus, 0>>, <<0, StatusByte(dev)>>, ok)
             r == read_status(t)
         IN  Single("read_status", U32(0, 0), 0, t,
                    IF r.ok THEN [val |-> "Ok", num |-> r.status, id |-> NoIdent]
                    ELSE [val |-> "Err", num |-> 0, id |-> NoIdent])

\* mutant: the test made on WEL
poll_of_wel(r) ==
    LET st == IF r.ok THEN r.status ELSE BUSY
    IN  IF contains(st, WEL) THEN "Pending" ELSE "Ready"

\* mutant: a failed status read taken for an empty Status
poll_of_empty(r) ==
    LET st == IF r.ok THEN r.status ELSE 0
    IN  IF contains(st, BUSY) THEN "Pending" ELSE "Ready"

\* the Poll of poll_wait_done (lines 216-225) for the outcome r of read_status
poll_of(r) ==
    LET st == IF r.ok THEN r.status ELSE BUSY
    IN  IF contains(st, BUSY) THEN "Pending" ELSE "Ready"

poll_wait_done ==
    /\ driver = "held"
    /\ \E ok \in BOOLEAN :
         LET t == SpiTransfer(<<ReadStatus, 0>>, <<0, StatusByte(dev)>>, ok)
         IN  Single("poll_wait_done", U32(0, 0), 0, t,
                    [val |-> poll_of(read_status(t)), num |-> 0, id |-> NoIdent])

\* mutant: read sets the write-enable latch first
read_after_write_enable ==
    /\ driver = "held"
    /\ pc = "idle"
    /\ \E ok \in BOOLEAN, addr \in Addrs, n \in ReadLens :
         /\ call' = [op |-> "read", addr |-> addr, data |-> <<>>, len |-> n]
         /\ log' = <<SpiWrite(<<WriteEnable>>, TRUE), SpiWriteRead(cmd_buf_read(addr), n, ok)>>
         /\ result' = [val |-> IF ok THEN "Ok" ELSE "Err", num |-> 0, id |-> NoIdent]
         /\ dev' = DevAfter(dev, WriteEnable)
    /\ UNCHANGED <<pc, driver, buf, ident, bits, status, params>>

\* read (lines 239-252)
read ==
    /\ driver = "held"
    /\ \E ok \in BOOLEAN, addr \in Addrs, n \in ReadLens :
         Single("read", addr, n, SpiWriteRead(cmd_buf_read(addr), n, ok),
                [val |-> IF ok THEN "Ok" ELSE "Err", num |-> 0, id |-> NoIdent])

\* mutant: the response decoded from its first byte
read_jedec_id_no_skip ==
    /\ driver = "held"
    /\ \E ok \in BOOLEAN, stream \in JedecStreams :
         LET t == SpiTransfer([i \in 1..JedecLen |-> IF i = 1 THEN ReadJedecId ELSE 0],
                              <<0>> \o stream, ok)
         IN  Single("read_jedec_id", U32(0, 0), 0, t,
                    IF ok THEN [val |-> "Ok", num |-> 0, id |-> from_jedec_id(t.rx)]
                    ELSE [val |-> "Err", num |-> 0, id |-> NoIdent])

\* read_jedec_id (lines 188-196): a 12-byte transfer, decoded from its second byte
jedec_buf == [i \in 1..JedecLen |-> IF i = 1 THEN ReadJedecId ELSE 0]

read_jedec_id ==
    /\ driver = "held"
    /\ \E ok \in BOOLEAN, stream \in JedecStreams :
         LET t == SpiTransfer(jedec_buf, <<0>> \o stream, ok)
         IN  Single("read_jedec_id", U32(0, 0), 0, t,
                    IF ok THEN [val |-> "Ok", num |-> 0,
                                id |-> from_jedec_id(SubSeq(t.rx, 2, Len(t.rx)))]
                    ELSE [val |-> "Err", num |-> 0, id |-> NoIdent])

\* a size accessor (lines 160-177): no transport operation
Accessor(op, size) ==
    /\ pc = "idle"
    /\ call' = [op |-> op, addr |-> U32(0, 0), data |-> <<>>, len |-> 0]
    /\ log' = <<>>
    /\ result' = [val |-> "Ok", num |-> size, id |-> NoIdent]
    /\ UNCHANGED <<pc, driver, dev, buf, ident, bits, status, params>>

page_write_size ==
    /\ driver = "held"
    /\ Accessor("page_write_size", params.page)

sector_erase_size ==
    /\ driver = "held"
    /\ Accessor("sector_erase_size", params.sector)

block_erase_size ==
    /\ driver = "held"
    /\ Accessor("block_erase_size", params.block)

chip_size ==
    /\ driver = "held"
    /\ Accessor("chip_size", params.chip)

\* the chip ends its erase or program and clears the latch
DeviceFinish ==
    /\ dev.busy
    /\ dev' = [dev EXCEPT !.busy = FALSE, !.wel = FALSE]
    /\ UNCHANGED <<driver, pc, call, log, result, buf, ident, bits, status, params>>

(***************************************************************************)
(* The driver specification: a chip in any state, no driver yet.           *)
(***************************************************************************)
Init ==
    /\ dev \in [busy : BOOLEAN, wel : BOOLEAN, hi : DevHi]
    /\ driver = "none"
    /\ pc = "idle"
    /\ call = NoCall
    /\ log = <<>>
    /\ result = NoResult
    /\ buf = <<>>
    /\ ident = NoIdent
    /\ bits = 0
    /\ status = 0
    /\ params \in Geometries

Next ==
    \/ init
    \/ wait_done
    \/ wait_done_step
    \/ erase_addressed
    \/ erase_all
    \/ write_bytes
    \/ write_enable
    \/ command
    \/ read_status_call
    \/ poll_wait_done
    \/ read
    \/ read_jedec_id
    \/ page_write_size
    \/ sector_erase_size
    \/ block_erase_size
    \/ chip_size
    \/ DeviceFinish

Spec == Init /\ [][Next]_vars

\* the driver with a running loop and a chip that ends what it has begun:
\* a call in progress takes its next step, a busy chip finishes
SpecLive ==
    /\ Init
    /\ [][Next]_vars
    /\ WF_vars(write_enable)
    /\ WF_vars(command)
    /\ WF_vars(wait_done_step)
    /\ WF_vars(DeviceFinish)

(***************************************************************************)
(* The decoder specification: from_jedec_id applied to one input buffer.   *)
(***************************************************************************)
IdAlphabet == {Continuation, 194, 34}

IdTails == {<<194, 34, 8>>, <<194, 127, 127>>, <<194>>, <<194, 34>>, <<0, 127, 127, 1>>}

\* the test vector of tests::test_decode_jedec_id (line 335)
cypress_id_bytes == <<129, 127, 127, 127, 127, 127, 194, 34, 8>>

\* runs around the width of the u8 continuation count
LongRuns == {254, 255, 256, 257}

IdInputs ==
    UNION {[1..n -> IdAlphabet] : n \in 0..MaxIdLen}
    \cup {Cont(k) \o tail : k \in (0..MaxCont) \cup LongRuns, tail \in IdTails}
    \cup {cypress_id_bytes}

Quiet ==
    /\ dev = [busy |-> FALSE, wel |-> FALSE, hi |-> 0]
    /\ driver = "none"
    /\ pc = "idle"
    /\ call = NoCall
    /\ log = <<>>
    /\ result = NoResult
    /\ params = Geometry(256, 4096, 65536, 16777216)

InitId ==
    /\ Quiet
    /\ buf \in IdInputs
    /\ ident = NoIdent
    /\ bits = 0
    /\ status = 0

from_jedec_id_call ==
    /\ call.op = "none"
    /\ call' = [call EXCEPT !.op = "from_jedec_id"]
    /\ ident' = from_jedec_id(buf)
    /\ UNCHANGED <<dev, driver, pc, log, result, buf, bits, status, params>>

NextId == from_jedec_id_call

SpecId == InitId /\ [][NextId]_vars

(***************************************************************************)
(* The status specification: Status::from_bits_truncate applied to a byte. *)
(***************************************************************************)
InitStatus ==
    /\ Quiet
    /\ buf = <<>>
    /\ ident = NoIdent
    /\ bits \in 0..255
    /\ status = 0

from_bits_truncate_call ==
    /\ call.op = "none"
    /\ call' = [call EXCEPT !.op = "from_bits_truncate"]
    /\ status' = from_bits_truncate(bits)
    /\ UNCHANGED <<dev, driver, pc, log, result, buf, ident, bits, params>>

NextStatus == from_bits_truncate_call

SpecStatus == InitStatus /\ [][NextStatus]_vars

(***************************************************************************)
(* The simulated-transport specification: a driver whose transport answers *)
(* a status read with any byte, and the two methods that read the status   *)
(* once.                                                                   *)
(***************************************************************************)
MockHi == {4 * j : j \in 0..63}

InitMock ==
    /\ dev \in [busy : BOOLEAN, wel : BOOLEAN, hi : MockHi]
    /\ driver = "held"
    /\ pc = "idle"
    /\ call = NoCall
    /\ log = <<>>
    /\ result = NoResult
    /\ buf = <<>>
    /\ ident = NoIdent
    /\ bits = 0
    /\ status = 0
    /\ params = Geometry(256, 4096, 65536, 16777216)

NextMock ==
    \/ read_status_call
    \/ poll_wait_done

SpecMock == InitMock /\ [][NextMock]_vars

(***************************************************************************)
(* Properties.  The transport operations of a call are read off log; bytes *)
(* and bits are written out as numbers, independently of the definitions   *)
(* above.                                                                  *)
(***************************************************************************)
AllOk(l) == \A i \in 1..Len(l) : l[i].ok

IsWriteOf(t, bytes) == t.kind = "write" /\ t.out = <<bytes>>

IsStatusRead(t) == t.kind = "transfer" /\ t.out = <<(<<5, 0>>)>>

\* the status read t succeeded and its byte has bit 0 set / clear
SaysBusy(t) == t.ok /\ t.rx[2] % 2 = 1
SaysReady(t) == t.ok /\ t.rx[2] % 2 = 0

\* the opcode an erase or program command starts with
OpcodeOf(op) ==
    CASE op = "erase_sector" -> 32
      [] op = "erase_block" -> 216
      [] op = "erase_all" -> 199
      [] op = "write_bytes" -> 2
      [] op = "read" -> 3

IsCommandOf(t, op) ==
    /\ t.out[1][1] = OpcodeOf(op)
    /\ IF op = "write_bytes" THEN t.kind = "transaction" /\ Len(t.out) = 2
       ELSE t.kind = "write" /\ Len(t.out) = 1
    /\ Len(t.out[1]) = IF op = "erase_all" THEN 1 ELSE 4

Low24(addr) == (addr.hi % 256) * 65536 + addr.lo

\* C1: with no transport failure, an erase or write call issues the write of
\* the byte 0x06, then its one erase/program command, then status reads of
\* which all but the last report BUSY and the last, on which it returns,
\* reports BUSY clear; it issues nothing else.
C1_CallOrder ==
    (call.op \in Consuming /\ AllOk(log)) =>
        /\ \A i \in 1..Len(log) :
             /\ i = 1 => IsWriteOf(log[i], <<6>>)
             /\ i = 2 => IsCommandOf(log[i], call.op)
             /\ i >= 3 => IsStatusRead(log[i])
             /\ (i >= 3 /\ i < Len(log)) => SaysBusy(log[i])
        /\ pc = "write_enable" <=> Len(log) = 0
        /\ pc = "command" <=> Len(log) = 1
        /\ pc = "wait_done" => (Len(log) >= 2 /\ (Len(log) >= 3 => SaysBusy(log[Len(log)])))
        /\ pc = "idle" => (Len(log) >= 3 /\ SaysReady(log[Len(log)]) /\ result.val = "Ok")

C1_Witness ==
    /\ call.op = "write_bytes"
    /\ pc = "idle"
    /\ AllOk(log)
    /\ Len(log) = 5
    /\ result.val = "Ok"

\* C2: init issues status reads only; it returns the driver only on a status
\* read that reports BUSY clear, all earlier ones having reported BUSY; a
\* failed status read is its last, and init then returns the error and no
\* driver; the chip is not busy when the driver is handed over.
C2_InitWaits ==
    call.op = "init" =>
        /\ \A i \in 1..Len(log) : IsStatusRead(log[i])
        /\ \A i \in 1..(Len(log) - 1) : SaysBusy(log[i])
        /\ pc \in {"idle", "wait_done"}
        /\ pc = "wait_done" => (driver = "moved" /\ \A i \in 1..Len(log) : SaysBusy(log[i]))
        /\ driver = "held" <=> (pc = "idle" /\ result.val = "Ok")
        /\ driver = "held" => (Len(log) >= 1 /\ SaysReady(log[Len(log)]) /\ ~dev.busy)
        /\ ~AllOk(log) => (pc = "idle" /\ result.val = "Err" /\ driver = "none")
        /\ (pc = "idle" /\ result.val = "Err") => ~log[Len(log)].ok

C2_Witness ==
    /\ call.op = "init"
    /\ driver = "held"
    /\ Len(log) = 3
    /\ SaysBusy(log[1])

\* C3: once an erase or write call has returned Ok, the caller holds the
\* driver again.
C3_DriverReturned ==
    (call.op \in Consuming /\ pc = "idle" /\ result.val = "Ok") => driver = "held"

\* C4: in an erase or write call a failed transport operation is the last one
\* the call issues, and the call returns the error: after a failed write-enable
\* there is no command, after a failed command no status read.
C4_FirstFailureAborts ==
    call.op \in Consuming =>
        /\ \A i \in 1..Len(log) :
             ~log[i].ok => (i = Len(log) /\ pc = "idle" /\ result.val = "Err")
        /\ (pc = "idle" /\ result.val = "Err") => ~log[Len(log)].ok
        /\ (Len(log) >= 1 /\ ~log[1].ok) => Len(log) = 1
        /\ (Len(log) >= 2 /\ ~log[2].ok) => Len(log) = 2

C4_Witness ==
    /\ call.op = "erase_sector"
    /\ Len(log) = 2
    /\ IsWriteOf(log[1], <<6>>) /\ log[1].ok
    /\ IsCommandOf(log[2], "erase_sector") /\ ~log[2].ok
    /\ result.val = "Err"

\* C5: poll_wait_done returns Pending or Ready, never an error, and Pending
\* whenever its status read failed.
C5_PollSwallowsError ==
    call.op = "poll_wait_done" =>
        /\ result.val \in {"Pending", "Ready"}
        /\ Len(log) = 1 /\ IsStatusRead(log[1])
        /\ ~log[1].ok => result.val = "Pending"

C5_Witness ==
    /\ call.op = "poll_wait_done"
    /\ ~log[1].ok
    /\ ~dev.busy
    /\ result.val = "Pending"

\* C6: the program transaction of write_bytes carries the 4-byte header and
\* then the first min(256, len(data)) bytes of data in order; no other
\* transport operation of the call carries data, and a call without transport
\* failure returns Ok whatever the length.
C6_PayloadTruncated ==
    call.op = "write_bytes" =>
        /\ Len(log) >= 2 =>
             /\ Len(log[2].out) = 2
             /\ Len(log[2].out[1]) = 4
             /\ Len(log[2].out[2]) = IF Len(call.data) < 256 THEN Len(call.data) ELSE 256
             /\ \A i \in 1..Len(log[2].out[2]) : log[2].out[2][i] = call.data[i]
        /\ \A i \in 1..Len(log) :
             i # 2 => (IsWriteOf(log[i], <<6>>) \/ IsStatusRead(log[i]))
        /\ (pc = "idle" /\ AllOk(log)) => result.val = "Ok"

C6_Witness ==
    /\ call.op = "write_bytes"
    /\ Len(call.data) = 300
    /\ pc = "idle"
    /\ result.val = "Ok"
    /\ Len(log[2].out[2]) = 256
    /\ log[2].out[2][256] = call.data[256]

\* the header the running call has sent, if it has sent one
HeaderSent ==
    IF call.op = "read" /\ Len(log) >= 1 THEN log[1].out[1]
    ELSE IF call.op \in {"erase_sector", "erase_block", "write_bytes"} /\ Len(log) >= 2
         THEN log[2].out[1]
    ELSE <<>>

\* C7: the header of read, erase_sector, erase_block and write_bytes is the
\* opcode and three bytes that are the low 24 bits of the address, most
\* significant first: a function of the low 24 bits alone; 0x01234567 gives
\* 0x23, 0x45, 0x67.
C7_Header24 ==
    HeaderSent # <<>> =>
        /\ Len(HeaderSent) = 4
        /\ HeaderSent[1] = OpcodeOf(call.op)
        /\ \A i \in 2..4 : HeaderSent[i] \in 0..255
        /\ HeaderSent[2] * 65536 + HeaderSent[3] * 256 + HeaderSent[4] = Low24(call.addr)
        /\ call.addr = U32(291, 17767) => SubSeq(HeaderSent, 2, 4) = <<35, 69, 103>>

C7_Witness ==
    /\ call.op = "erase_block"
    /\ call.addr = U32(33059, 17767)
    /\ HeaderSent = <<216, 35, 69, 103>>

\* the number of leading 0x7F bytes of b
Lead(b) ==
    LET others == {i \in 1..Len(b) : b[i] # 127}
    IN  IF others = {} THEN Len(b)
        ELSE (CHOOSE i \in others : \A j \in others : i <= j) - 1

Identity(id) == <<mfr_code(id)>> \o device_id(id)

C9_TestVector ==
    (call.op = "from_jedec_id" /\ buf = <<129, 127, 127, 127, 127, 127, 194, 34, 8>>) =>
        /\ mfr_code(ident) = 194
        /\ continuation_count(ident) = 6
        /\ device_id(ident) = <<34, 8>>

\* C10 as stated: the Status of byte 0x83 contains BUSY and WEL and not SRWD;
\* the Status of byte 0x80 contains SRWD and not BUSY.
C10_AsStated ==
    call.op = "from_bits_truncate" =>
        /\ bits = 131 =>
             (contains(status, 1) /\ contains(status, 2) /\ ~contains(status, 128))
        /\ bits = 128 => (contains(status, 128) /\ ~contains(status, 1))

\* C10 amended: the Status of byte 0x83, whose bit 7 is set, contains BUSY,
\* WEL and SRWD (and not PROT); the Status of byte 0x80 contains SRWD and
\* not BUSY.
C10_StatusFlags ==
    call.op = "from_bits_truncate" =>
        /\ bits = 131 =>
             /\ contains(status, 1) /\ contains(status, 2) /\ contains(status, 128)
             /\ ~contains(status, 28)
        /\ bits = 128 => (contains(status, 128) /\ ~contains(status, 1))

C10_Witness ==
    /\ call.op = "from_bits_truncate"
    /\ bits = 131
    /\ status = 131

\* C11: read is one transaction of its 4-byte header and a read of len(buf)
\* bytes, write_bytes sends its header and payload in one transaction, and
\* read_status and read_jedec_id are one full-duplex transfer each (of 2 and
\* of 12 bytes): command and data share one frame.
C11_OneFrame ==
    /\ call.op = "read" =>
         /\ Len(log) = 1
         /\ log[1].kind = "transaction"
         /\ Len(log[1].out) = 1 /\ Len(log[1].out[1]) = 4 /\ log[1].out[1][1] = 3
         /\ log[1].rdlen = call.len
    /\ (call.op = "write_bytes" /\ Len(log) >= 2) =>
         /\ log[2].kind = "transaction"
         /\ Len(log[2].out) = 2 /\ Len(log[2].out[1]) = 4 /\ log[2].out[1][1] = 2
         /\ Len(log[2].out[2]) = IF Len(call.data) < 256 THEN Len(call.data) ELSE 256
         /\ \A i \in 1..Len(log) : i # 2 => log[i].out[1][1] \in {5, 6}
    /\ call.op = "read_status" =>
         /\ Len(log) = 1
         /\ log[1].kind = "transfer" /\ log[1].out = <<(<<5, 0>>)>>
    /\ call.op = "read_jedec_id" =>
         /\ Len(log) = 1
         /\ log[1].kind = "transfer"
         /\ Len(log[1].out) = 1 /\ Len(log[1].out[1]) = 12 /\ log[1].out[1][1] = 159

C11_Witness ==
    /\ call.op = "write_bytes"
    /\ Len(log) >= 2
    /\ log[2].ok
    /\ Len(log[2].out[2]) = 256

\* what read_jedec_id returns for k continuation bytes and then identity id
DecodesAs(k, id) ==
    /\ result.val = "Ok"
    /\ continuation_count(result.id) = k
    /\ Identity(result.id) = id

\* the chip answered the transfer with k continuation bytes and then id
Answered(k, id) ==
    /\ call.op = "read_jedec_id"
    /\ log[1].ok
    /\ SubSeq(log[1].rx, 2, 12) = SubSeq(Cont(k) \o id \o <<0, 0, 0, 0, 0, 0, 0, 0, 0, 0, 0>>, 1, 11)

JedecShape ==
    call.op = "read_jedec_id" =>
        /\ Len(log) = 1
        /\ log[1].kind = "transfer"
        /\ Len(log[1].out[1]) = 12 /\ log[1].out[1][1] = 159
        /\ log[1].ok <=> result.val = "Ok"

\* C12 as stated: read_jedec_id is one 12-byte transfer starting with 0x9F,
\* and for every k from 0 to 9 an answer of k continuation bytes and a 3-byte
\* identity decodes to continuation count k and that identity.
C12_AsStated ==
    /\ JedecShape
    /\ \A k \in 0..9, id \in JedecIds : Answered(k, id) => DecodesAs(k, id)

\* C12 amended: the same for every k from 0 to 8 (the 11 bytes after the
\* first hold at most 8 continuation bytes and a whole identity).
C12_UpTo8 ==
    /\ JedecShape
    /\ \A k \in 0..8, id \in JedecIds : Answered(k, id) => DecodesAs(k, id)

C12_Witness ==
    /\ Answered(8, <<194, 34, 8>>)
    /\ DecodesAs(8, <<194, 34, 8>>)

Sent(t) == [kind |-> t.kind, out |-> t.out, rdlen |-> t.rdlen]

HeaderFor(opcode, addr) ==
    <<opcode, addr.hi % 256, addr.lo \div 256, addr.lo % 256>>

StatusReadSent == [kind |-> "transfer", out |-> <<(<<5, 0>>)>>, rdlen |-> 0]

\* the i-th transport operation of call c, from its arguments alone
ExpectedSent(c, i) ==
    CASE c.op \in {"init", "wait_done", "read_status", "poll_wait_done"} -> StatusReadSent
      [] c.op = "read" ->
            [kind |-> "transaction", out |-> <<HeaderFor(3, c.addr)>>, rdlen |-> c.len]
      [] c.op = "read_jedec_id" ->
            [kind |-> "transfer", out |-> <<(<<159, 0, 0, 0, 0, 0, 0, 0, 0, 0, 0, 0>>)>>,
             rdlen |-> 0]
      [] c.op \in Consuming /\ i = 1 -> [kind |-> "write", out |-> <<(<<6>>)>>, rdlen |-> 0]
      [] c.op \in Consuming /\ i >= 3 -> StatusReadSent
      [] c.op = "erase_sector" /\ i = 2 ->
            [kind |-> "write", out |-> <<HeaderFor(32, c.addr)>>, rdlen |-> 0]
      [] c.op = "erase_block" /\ i = 2 ->
            [kind |-> "write", out |-> <<HeaderFor(216, c.addr)>>, rdlen |-> 0]
      [] c.op = "erase_all" /\ i = 2 -> [kind |-> "write", out |-> <<(<<199>>)>>, rdlen |-> 0]
      [] c.op = "write_bytes" /\ i = 2 ->
            [kind |-> "transaction",
             out |-> <<HeaderFor(2, c.addr),
                       SubSeq(c.data, 1, IF Len(c.data) < 256 THEN Len(c.data) ELSE 256)>>,
             rdlen |-> 0]

SizeOps == {"page_write_size", "sector_erase_size", "block_erase_size", "chip_size"}

\* the outcome of a returned call, from the chip's and the transport's responses alone
ExpectedVal ==
    IF call.op \in SizeOps THEN "Ok"
    ELSE IF call.op = "poll_wait_done"
         THEN (IF SaysReady(log[1]) THEN "Ready" ELSE "Pending")
    ELSE IF log[Len(log)].ok THEN "Ok" ELSE "Err"

\* C14: under every geometry, each transport operation of a call is fixed by
\* the call's arguments alone and its outcome by the responses alone: no
\* address or length is rejected, clamped or altered (addresses beyond the
\* chip size, payloads and reads beyond the page size included), write_bytes
\* cuts at 256 whatever the page size, and only the four size accessors,
\* which issue no transport operation, return the configured values.
C14_GeometryInert ==
    /\ \A i \in 1..Len(log) : Sent(log[i]) = ExpectedSent(call, i)
    /\ (pc = "idle" /\ call.op # "none") => result.val = ExpectedVal
    /\ call.op \in SizeOps =>
         /\ log = <<>>
         /\ result.num = CASE call.op = "page_write_size" -> params.page
                            [] call.op = "sector_erase_size" -> params.sector
                            [] call.op = "block_erase_size" -> params.block
                            [] call.op = "chip_size" -> params.chip
    /\ call.op \in {"read", "poll_wait_done"} \cup Consuming =>
         (result.num = 0 /\ result.id = NoIdent)

C14_Witness ==
    /\ params.page = 64
    /\ params.chip = 65536
    /\ call.op = "write_bytes"
    /\ call.addr = U32(291, 17767)
    /\ Len(call.data) = 300
    /\ pc = "idle"
    /\ result.val = "Ok"
    /\ Len(log[2].out[2]) = 256

WaitOps == {"init", "wait_done"} \cup Consuming

\* C15: wait_done (alone, in init and in the erase and write calls) returns Ok
\* only on a status read that succeeded with BUSY clear, which is its last;
\* a failed status read is its last too, and it returns the error, also
\* while the chip is still busy.
C15_WaitDone ==
    call.op \in WaitOps =>
        /\ \A i \in 1..Len(log) :
             (IsStatusRead(log[i]) /\ ~log[i].ok) =>
                 (i = Len(log) /\ pc = "idle" /\ result.val = "Err")
        /\ \A i \in 1..Len(log) :
             (IsStatusRead(log[i]) /\ SaysReady(log[i])) =>
                 (i = Len(log) /\ pc = "idle" /\ result.val = "Ok")
        /\ (pc = "idle" /\ result.val = "Ok") =>
             (Len(log) >= 1 /\ IsStatusRead(log[Len(log)]) /\ SaysReady(log[Len(log)]))

C15_Witness ==
    /\ call.op = "erase_all"
    /\ Len(log) = 4
    /\ SaysBusy(log[3])
    /\ ~log[4].ok
    /\ dev.busy
    /\ pc = "idle"
    /\ result.val = "Err"

\* C16: with a chip that ends what it has begun, every call returns; and a
\* successful status read of a busy chip always leaves wait_done waiting,
\* however many reads went before: there is no timeout or retry limit.
C16_Termination ==
    /\ (pc # "idle") ~> (pc = "idle")
    /\ [][(/\ pc = "wait_done"
           /\ dev.busy
           /\ Len(log') = Len(log) + 1
           /\ log'[Len(log')].ok) => pc' = "wait_done"]_vars

C16_Witness ==
    /\ call.op = "erase_all"
    /\ pc = "idle"
    /\ result.val = "Ok"
    /\ Len(log) = 6
    /\ SaysBusy(log[5])

\* C17: read issues one transaction, its header 0x03 and the low 24 address
\* bits and a read of len(buf) bytes, and nothing else, whatever the address
\* and the length; it returns Ok, or Err when the transaction failed, and it
\* leaves the chip's write-enable latch and busy state as they were.
C17_ReadOnly ==
    /\ [](call.op = "read" =>
            /\ Len(log) = 1
            /\ Sent(log[1]) = [kind |-> "transaction",
                               out |-> <<HeaderFor(3, call.addr)>>, rdlen |-> call.len]
            /\ pc = "idle"
            /\ driver = "held"
            /\ result.val = IF log[1].ok THEN "Ok" ELSE "Err")
    /\ [][read => (dev'.wel = dev.wel /\ dev'.busy = dev.busy)]_vars

C17_Witness ==
    /\ call.op = "read"
    /\ call.addr = U32(65535, 65535)
    /\ call.len = 300
    /\ params.chip = 65536
    /\ dev.wel
    /\ result.val = "Ok"

\* C18: a poll_wait_done call issues exactly one status read and has then
\* returned: Ready if that read succeeded with BUSY clear, Pending if not.
C18_PollOnce ==
    call.op = "poll_wait_done" =>
        /\ pc = "idle"
        /\ Len(log) = 1
        /\ IsStatusRead(log[1])
        /\ result.val = "Ready" <=> SaysReady(log[1])
        /\ result.val = "Pending" <=> ~SaysReady(log[1])

C18_Witness ==
    /\ call.op = "poll_wait_done"
    /\ SaysBusy(log[1])
    /\ log[1].rx[2] = 125
    /\ result.val = "Pending"

\* C19: read_status sends 0x05 and returns, for the second byte b received,
\* the flags with bits b & 0x9F: bits 5 and 6 dropped, BUSY, WEL and SRWD
\* contained exactly when bits 0, 1 and 7 of b are set, PROT exactly when
\* bits 2, 3 and 4 are all set.
C19_StatusBits ==
    (call.op = "read_status" /\ log[1].ok) =>
        LET b == log[1].rx[2]
            st == result.num
        IN  /\ log[1].out[1][1] = 5
            /\ result.val = "Ok"
            /\ st = b - ((b \div 32) % 4) * 32
            /\ contains(st, 1) <=> b % 2 = 1
            /\ contains(st, 2) <=> (b \div 2) % 2 = 1
            /\ contains(st, 128) <=> (b \div 128) % 2 = 1
            /\ contains(st, 28) <=> (b \div 4) % 8 = 7

C19_Witness ==
    /\ call.op = "read_status"
    /\ log[1].ok
    /\ log[1].rx[2] = 255
    /\ result.num = 159

\* C20: the caller never holds the driver while the chip is busy, and a
\* transport operation issued while the chip is busy is a status read, also
\* after an erase or write call was aborted by a failed status read with the
\* chip still busy.
C20_OnlyStatusWhileBusy ==
    /\ [](driver = "held" => ~dev.busy)
    /\ [][(/\ dev.busy
           /\ Len(log') >= 1
           /\ <<log, call, result, pc>>' # <<log, call, result, pc>>)
          => IsStatusRead(log'[Len(log')])]_vars

C20_Witness ==
    /\ call.op \in Consuming
    /\ pc = "idle"
    /\ result.val = "Err"
    /\ Len(log) >= 3
    /\ dev.busy
    /\ driver = "none"

====
